---- MODULE Spec2Model ----
(***************************************************************************)
(* LinkMint: webhook event processing, preview tokens, catalog resolution  *)
(* and checkout URL templating (src/app/main.py, src/app/stripe_utils.py,   *)
(* src/app/email_providers.py).                                            *)
(***************************************************************************)
EXTENDS Integers, Sequences, FiniteSets, TLC

VARIABLES
    provider,     \* email_provider, built once at import time (main.py:18)
    whReq,        \* the last webhook request handled
    whResp,       \* its response: [status, calls]
    delivered,    \* number of webhook requests handled so far
    sent,         \* number of email_provider.send calls so far
    acked,        \* number of {"ok": True} responses so far
    trace,        \* one entry per webhook request handled, in order
    products,     \* the payment platform's products, in listing order
    prices,       \* the payment platform's prices, in listing order
    catReq,       \* the last catalog lookup asked for
    catResp,      \* and its result
    now,          \* time.time(), in seconds
    ticks,        \* number of clock advances so far
    issued,       \* the tokens GET /preview-token/{slug} has returned
    pgReq,        \* the last product-page request
    pgResp,       \* and its response
    env,          \* os.environ: BASE_URL and the two URL templates
    coReq,        \* the last checkout request
    coResp        \* and its response, with the session asked of the platform

vars == <<provider, whReq, whResp, delivered, sent, acked, trace,
          products, prices, catReq, catResp,
          now, ticks, issued, pgReq, pgResp,
          env, coReq, coResp>>

coVars == <<env, coReq, coResp>>

pgVars == <<now, ticks, issued, pgReq, pgResp>>

whVars == <<provider, whReq, whResp, delivered, sent, acked, trace>>
catVars == <<products, prices, catReq, catResp>>

(***************************************************************************)
(* Bounds.                                                                 *)
(***************************************************************************)
MaxDeliveries == 2
MaxProducts == 5
MaxPrices == 3
PageSize == 2
MaxTicks == 2
MaxTokens == 1
MaxReplay == 3

(***************************************************************************)
(* JSON values of an event's object payload.  A key of a dict is absent,   *)
(* null (None), a string, or a nested dict; of a nested dict only the one  *)
(* key the handler reads is kept (val).                                    *)
(***************************************************************************)
Absent == [tag |-> "absent"]
Null == [tag |-> "null"]
Str(s) == [tag |-> "str", val |-> s]
Obj(v) == [tag |-> "obj", val |-> v]

Emails == {"buyer@example.com"}

LeafValues(strings) == {Absent, Null, Str("")} \cup {Str(s) : s \in strings}
DictValues(strings) == {Absent, Null} \cup {Obj(v) : v \in LeafValues(strings)}

\* Python truthiness of a value read from the payload.
Truthy(v) == v.tag = "obj" \/ (v.tag = "str" /\ v.val # "")

\* dict.get(key, default) on the top-level object: the default is used only
\* when the key is absent; a key present with value None yields None.
DictGet(v, default) == IF v.tag = "absent" THEN default ELSE v

\* (x or {}): None and other falsy values are replaced by the empty dict.
OrEmpty(v) == IF Truthy(v) THEN v ELSE Obj(Absent)

\* x.get(key) on the value x; only a dict has .get, anything else raises
\* AttributeError.  A missing key yields None.
HasGet(v) == v.tag = "obj"
InnerGet(v, default) == IF v.val.tag = "absent" THEN default ELSE v.val

(***************************************************************************)
(* Webhook signatures.  A signature header is missing ("") or carries a    *)
(* MAC over (timestamp, payload) under some key; age is the header's       *)
(* timestamp age at the time of receipt.                                   *)
(***************************************************************************)
WebhookSecret == "whsec"
OtherSecret == "whsec_other"
Tolerance == 300

NoHeader == [key |-> "", body |-> <<>>]
Mac(key, payload) == [key |-> key, body |-> <<payload>>]

EventTypes == {"checkout.session.completed", "charge.refunded", "invoice.paid"}

Payloads ==
    [type : EventTypes,
     customer_details : DictValues(Emails),
     billing_details : DictValues(Emails),
     metadata : DictValues({"widget-1"})]

\* A payload other than p: the one the header was computed over when the
\* request's payload was altered in transit.
Tamper(p) ==
    [p EXCEPT !.type = IF p.type = "invoice.paid"
                       THEN "checkout.session.completed" ELSE "invoice.paid"]

Headers(p) ==
    {NoHeader, Mac(WebhookSecret, p), Mac(OtherSecret, p),
     Mac(WebhookSecret, Tamper(p))}

Ages == {0, Tolerance, Tolerance + 1}

\* stripe.Webhook.construct_event: raises unless the header's MAC was made
\* with the secret over this very payload and is within the tolerance.
verify_webhook_mut(sig_header, payload, age) ==
    /\ sig_header.key = WebhookSecret
    /\ age <= Tolerance

verify_webhook(sig_header, payload, age) ==
    /\ sig_header.key = WebhookSecret
    /\ sig_header.body = <<payload>>
    /\ age <= Tolerance

(***************************************************************************)
(* Notification dispatcher.                                                *)
(***************************************************************************)
Providers == {"disabled", "postmark", "brevo", "sendgrid"}

\* EmailProvider.send: the disabled provider returns; the HTTP providers
\* raise when the backend answers with a non-success status.
SendRaises(p, httpOk) == p # "disabled" /\ ~httpOk

SendCall(to, subject, html, text) ==
    [to |-> to, subject |-> subject, html |-> html, text |-> text]

(***************************************************************************)
(* POST /api/stripe/webhook.  A request is [payload, sig, age]; the result *)
(* is the response status and the send calls the handler made.  An         *)
(* exception that leaves the handler is answered with status 500.          *)
(***************************************************************************)
Response(status, calls) == [status |-> status, calls |-> calls]

ConfirmSubject == "Your order is confirmed"
RefundSubject == "Your refund is completed"
ConfirmHtml(slug) ==
    <<"<p>Thanks for your purchase of <strong>", slug, "</strong>.</p>">>
ConfirmText(slug) == <<"Order confirmed for ", slug>>
RefundHtml == <<"<p>Your refund has been processed.</p>">>

\* try: email_provider.send(...) except Exception: pass.  The call is made;
\* whether it raised does not reach the response.
send_swallowed_mut(call, raised) ==
    IF raised THEN Response(500, <<call>>) ELSE Response(200, <<call>>)

send_swallowed(call, raised) == Response(200, <<call>>)

\* The checkout.session.completed branch (main.py:94-104).
on_checkout_completed(data, raised) ==
    LET details == DictGet(data.customer_details, Obj(Absent))
        md == OrEmpty(DictGet(data.metadata, Null))
    IN  IF ~HasGet(details)
        THEN Response(500, <<>>)
        ELSE LET customer_email == InnerGet(details, Null)
                 slug == InnerGet(md, Str(""))
             IN  IF Truthy(customer_email) /\ Truthy(slug)
                 THEN send_swallowed(
                        SendCall(customer_email.val, ConfirmSubject,
                                 ConfirmHtml(slug.val), ConfirmText(slug.val)),
                        raised)
                 ELSE Response(200, <<>>)

\* The charge.refunded branch (main.py:106-112).
on_charge_refunded(data, raised) ==
    LET details == DictGet(data.billing_details, Obj(Absent))
    IN  IF ~HasGet(details)
        THEN Response(500, <<>>)
        ELSE LET email == InnerGet(details, Null)
             IN  IF Truthy(email)
                 THEN send_swallowed(
                        SendCall(email.val, RefundSubject, RefundHtml, <<>>),
                        raised)
                 ELSE Response(200, <<>>)

\* The handler: verification first, then the branch of the event type.  The
\* two type tests exclude each other, so at most one branch runs.
stripe_webhook_dedup(req, prov) ==
    IF ~verify_webhook(req.sig, req.payload, req.age)
    THEN Response(400, <<>>)
    ELSE IF \E i \in 1..Len(trace) : trace[i].study = (req = whReq)
    THEN Response(200, <<>>)
    ELSE LET t == req.payload.type
             data == req.payload
             raised == SendRaises(prov, req.httpOk)
         IN  IF t = "checkout.session.completed"
             THEN on_checkout_completed(data, raised)
             ELSE IF t = "charge.refunded"
             THEN on_charge_refunded(data, raised)
             ELSE Response(200, <<>>)

stripe_webhook(req, prov) ==
    IF ~verify_webhook(req.sig, req.payload, req.age)
    THEN Response(400, <<>>)
    ELSE LET t == req.payload.type
             data == req.payload
             raised == SendRaises(prov, req.httpOk)
         IN  IF t = "checkout.session.completed"
             THEN on_checkout_completed(data, raised)
             ELSE IF t = "charge.refunded"
             THEN on_charge_refunded(data, raised)
             ELSE Response(200, <<>>)

Request(p, h, a, httpOk) ==
    [payload |-> p, sig |-> h, age |-> a, httpOk |-> httpOk]

(***************************************************************************)
(* Catalog resolver (stripe_utils.py:31-52).  A product is [id, active,     *)
(* slug, published, default_price]; slug and published are the metadata    *)
(* entries, NoSlug / NoFlag when the key is not in the metadata; a price is *)
(* [id, product, active].  Ids are positive numbers, NoPrice is None.       *)
(***************************************************************************)
NoSlug == "<no slug>"
NoFlag == "<no flag>"
NoPrice == 0
ListLimit == 10

Product(id, active, slug, published, dp) ==
    [id |-> id, active |-> active, slug |-> slug, published |-> published,
     default_price |-> dp]

NoProduct == Product(0, FALSE, NoSlug, NoFlag, NoPrice)

Price(id, product, active) == [id |-> id, product |-> product, active |-> active]

Min(a, b) == IF a <= b THEN a ELSE b

\* stripe.Product.list(active=True): the active products, in listing order.
ActiveListing(prods) == SelectSeq(prods, LAMBDA q : q.active)

\* One page of the listing, starting at item `start`, and whether the
\* upstream has more after it.
ListPage(listing, start) ==
    LET last == Min(start + PageSize - 1, Len(listing))
    IN  [data |-> SubSeq(listing, start, last), has_more |-> last < Len(listing)]

\* for p in page: if p.metadata.get("slug") == slug: the index of the first
\* such item from i on, 0 if there is none.
RECURSIVE FirstMatch(_, _, _)
FirstMatch(data, i, slug) ==
    IF i > Len(data) THEN 0
    ELSE IF data[i].slug = slug THEN i
    ELSE FirstMatch(data, i + 1, slug)

Found(item, fetched) == [found |-> TRUE, item |-> item, fetched |-> fetched]
NotFound(fetched) == [found |-> FALSE, item |-> NoProduct, fetched |-> fetched]

\* auto_paging_iter: the items of a page, then the next page while the
\* upstream says has_more.
RECURSIVE auto_paging_scan_mut(_, _, _, _)
auto_paging_scan_mut(listing, start, slug, fetched) ==
    LET page == ListPage(listing, start)
        k == FirstMatch(page.data, 1, slug)
    IN  IF k > 0 THEN Found(page.data[k], fetched)
        ELSE NotFound(fetched)

RECURSIVE auto_paging_scan(_, _, _, _)
auto_paging_scan(listing, start, slug, fetched) ==
    LET page == ListPage(listing, start)
        k == FirstMatch(page.data, 1, slug)
    IN  IF k > 0 THEN Found(page.data[k], fetched)
        ELSE IF page.has_more
             THEN auto_paging_scan(listing, start + PageSize, slug, fetched + 1)
             ELSE NotFound(fetched)

find_product_by_slug(prods, slug) ==
    auto_paging_scan(ActiveListing(prods), 1, slug, 1)

\* stripe.Price.retrieve(id)
PriceById(prs, id) == prs[CHOOSE i \in 1..Len(prs) : prs[i].id = id]

\* stripe.Price.list(product=..., active=True, limit=10)
ActivePrices(prs, product_id) ==
    LET all == SelectSeq(prs, LAMBDA q : q.product = product_id /\ q.active)
    IN  SubSeq(all, 1, Min(ListLimit, Len(all)))

default_price_for_product_mut(product, prs) ==
    IF product.default_price # NoPrice
    THEN product.default_price
    ELSE LET listed == ActivePrices(prs, product.id)
         IN  IF Len(listed) > 0 THEN listed[1].id ELSE NoPrice

default_price_for_product(product, prs) ==
    IF product.default_price # NoPrice
       /\ PriceById(prs, product.default_price).active
    THEN product.default_price
    ELSE LET listed == ActivePrices(prs, product.id)
         IN  IF Len(listed) > 0 THEN listed[1].id ELSE NoPrice

(***************************************************************************)
(* Preview tokens (main.py:17, 47, 125): itsdangerous TimestampSigner.  A   *)
(* token carries the signed value, the issue timestamp and an HMAC over     *)
(* both under the signer's secret.  What a request presents as ?preview= is *)
(* nothing (None), the empty string, a string without the separators, or a *)
(* token.                                                                  *)
(***************************************************************************)
PreviewSecret == "change_me"
ForgerSecret == "guess"
MaxAge == 3600

Hmac(key, value, ts) == [key |-> key, value |-> value, ts |-> ts]

Token(kind, value, ts, sig) ==
    [kind |-> kind, value |-> value, ts |-> ts, sig |-> sig]

NoToken == Token("none", "", 0, Hmac("", "", 0))
EmptyToken == Token("empty", "", 0, Hmac("", "", 0))
GarbledToken == Token("garbled", "", 0, Hmac("", "", 0))

\* signer.sign(slug) at time t
sign(slug, t) == Token("token", slug, t, Hmac(PreviewSecret, slug, t))

Unsigned(value) == [ok |-> TRUE, value |-> value, error |-> ""]
Raised(error) == [ok |-> FALSE, value |-> "", error |-> error]

\* signer.unsign(token, max_age) at time t: BadSignature unless the HMAC is
\* the signer's over the token's value and timestamp; SignatureExpired (a
\* BadSignature) when the age exceeds max_age or is negative.
unsign_mut(token, max_age, t) ==
    IF token.kind # "token" THEN Raised("BadSignature")
    ELSE IF token.sig # Hmac(PreviewSecret, token.value, token.ts)
    THEN Raised("BadSignature")
    ELSE IF t - token.ts >= max_age THEN Raised("SignatureExpired")
    ELSE IF t - token.ts < 0 THEN Raised("SignatureExpired")
    ELSE Unsigned(token.value)

unsign(token, max_age, t) ==
    IF token.kind # "token" THEN Raised("BadSignature")
    ELSE IF token.sig # Hmac(PreviewSecret, token.value, token.ts)
    THEN Raised("BadSignature")
    ELSE IF t - token.ts > max_age THEN Raised("SignatureExpired")
    ELSE IF t - token.ts < 0 THEN Raised("SignatureExpired")
    ELSE Unsigned(token.value)

(***************************************************************************)
(* GET /p/{slug} (main.py:37-63).  The response is the status, the detail   *)
(* of the HTTPException and what signer.unsign did when it was called.      *)
(***************************************************************************)
NotCalled == [called |-> FALSE, ok |-> FALSE, value |-> "", error |-> ""]
Called(u) == [called |-> TRUE, ok |-> u.ok, value |-> u.value, error |-> u.error]

PageResponse(status, detail, u) ==
    [status |-> status, detail |-> detail, unsign |-> u]

\* md.get("published", "true")
PublishedFlag(prod) == IF prod.published = NoFlag THEN "true" ELSE prod.published

\* "if not preview": None and "" are falsy.
Falsy(preview) == preview.kind \in {"none", "empty"}

\* The part after the publication check: price lookup and rendering.
render_page(prod, prs, u) ==
    IF default_price_for_product(prod, prs) = NoPrice
    THEN PageResponse(400, "No active price for product", u)
    ELSE PageResponse(200, "", u)

product_page(prods, prs, slug, preview, t) ==
    LET f == find_product_by_slug(prods, slug)
    IN  IF ~f.found
        THEN PageResponse(404, "Product not found", NotCalled)
        ELSE IF PublishedFlag(f.item) # "true"
        THEN IF Falsy(preview)
             THEN PageResponse(404, "Product not published", NotCalled)
             ELSE LET u == unsign(preview, MaxAge, t)
                  IN  IF ~u.ok
                      THEN PageResponse(403, "Invalid preview token", Called(u))
                      ELSE render_page(f.item, prs, Called(u))
        ELSE render_page(f.item, prs, NotCalled)

\* GET /preview-token/{slug}: signs whatever slug it is given.
preview_token(slug, t) == sign(slug, t)

(***************************************************************************)
(* Checkout session builder (stripe_utils.py:6-25).  A string is a sequence *)
(* of pieces; the braces are pieces of their own, so that str.replace can   *)
(* be modelled as the search for a sequence of pieces.                      *)
(***************************************************************************)
Unset == [set |-> FALSE, value |-> <<>>]
SetTo(value) == [set |-> TRUE, value |-> value]

\* os.getenv(name, default)
getenv(var, default) == IF var.set THEN var.value ELSE default

DefaultBaseUrl == <<"http://localhost:8000">>

\* The f-string defaults: in an f-string "{{" and "}}" are single braces.
DefaultSuccessTemplate(base) ==
    base \o <<"/p/", "{", "slug", "}", "?success=1&op=",
              "{", "order_public_id", "}">>
DefaultCancelTemplate(base) ==
    base \o <<"/p/", "{", "slug", "}", "?cancel=1">>

\* The plain string literals given to replace: "{{slug}}" is eight characters.
SlugPattern == <<"{", "{", "slug", "}", "}">>
OrderPattern == <<"{", "{", "order_public_id", "}", "}">>

StartsWith(str, i, pat) ==
    /\ i + Len(pat) - 1 <= Len(str)
    /\ SubSeq(str, i, i + Len(pat) - 1) = pat

\* str.replace(pat, rep): every non-overlapping occurrence, left to right.
RECURSIVE ReplaceFrom(_, _, _, _)
ReplaceFrom(str, i, pat, rep) ==
    IF i > Len(str) THEN <<>>
    ELSE IF StartsWith(str, i, pat)
    THEN rep \o ReplaceFrom(str, i + Len(pat), pat, rep)
    ELSE <<str[i]>> \o ReplaceFrom(str, i + 1, pat, rep)

Replace(str, pat, rep) == ReplaceFrom(str, 1, pat, rep)

build_success_url(e, slug, order_public_id) ==
    LET template == getenv(e.success, DefaultSuccessTemplate(getenv(e.base, DefaultBaseUrl)))
    IN  Replace(Replace(template, SlugPattern, <<slug>>),
                OrderPattern, <<order_public_id>>)

build_cancel_url(e, slug) ==
    LET template == getenv(e.cancel, DefaultCancelTemplate(getenv(e.base, DefaultBaseUrl)))
    IN  Replace(template, SlugPattern, <<slug>>)

NoEmail == "<none>"

\* The arguments of stripe.checkout.Session.create.
create_checkout_session(e, slug, price_id, customer_email, metadata) ==
    [mode |-> "payment",
     price |-> price_id,
     quantity |-> 1,
     success_url |-> build_success_url(e, slug, metadata.order_public_id),
     cancel_url |-> build_cancel_url(e, slug),
     customer_email |-> customer_email,
     metadata |-> metadata]

NoSession ==
    [mode |-> "", price |-> NoPrice, quantity |-> 0, success_url |-> <<>>,
     cancel_url |-> <<>>, customer_email |-> NoEmail,
     metadata |-> [product_slug |-> "", order_public_id |-> ""]]

CheckoutResponse(status, detail, session) ==
    [status |-> status, detail |-> detail, session |-> session]

\* POST /api/checkout/session (main.py:65-80).
create_session_gated(e, prods, prs, slug, email, order_public_id) ==
    LET f == find_product_by_slug(prods, slug)
    IN  IF ~f.found \/ PublishedFlag(f.item) # "true"
        THEN CheckoutResponse(404, "Product not found", NoSession)
        ELSE LET price_id == default_price_for_product(f.item, prs)
             IN  IF price_id = NoPrice
                 THEN CheckoutResponse(400, "No price configured", NoSession)
                 ELSE CheckoutResponse(303, "",
                        create_checkout_session(e, slug, price_id, email,
                            [product_slug |-> slug,
                             order_public_id |-> order_public_id]))

create_session(e, prods, prs, slug, email, order_public_id) ==
    LET f == find_product_by_slug(prods, slug)
    IN  IF ~f.found
        THEN CheckoutResponse(404, "Product not found", NoSession)
        ELSE LET price_id == default_price_for_product(f.item, prs)
             IN  IF price_id = NoPrice
                 THEN CheckoutResponse(400, "No price configured", NoSession)
                 ELSE CheckoutResponse(303, "",
                        create_checkout_session(e, slug, price_id, email,
                            [product_slug |-> slug,
                             order_public_id |-> order_public_id]))

(***************************************************************************)
(* Idle values of the variables a specification does not use.              *)
(***************************************************************************)
NoRequest ==
    Request([type |-> "", customer_details |-> Absent,
             billing_details |-> Absent, metadata |-> Absent],
            NoHeader, 0, TRUE)

IdleWebhook ==
    /\ provider = "disabled"
    /\ whReq = NoRequest
    /\ whResp = Response(0, <<>>)
    /\ delivered = 0
    /\ sent = 0
    /\ acked = 0
    /\ trace = <<>>

NoLookup == [op |-> "", slug |-> ""]

IdleCatalog ==
    /\ products = <<>>
    /\ prices = <<>>
    /\ catReq = NoLookup
    /\ catResp = [done |-> FALSE, found |-> FALSE, item |-> NoProduct,
                  fetched |-> 0, price |-> NoPrice]

NoPageRequest == [slug |-> "", preview |-> NoToken, at |-> 0]

IdlePage ==
    /\ now = 0
    /\ ticks = 0
    /\ issued = {}
    /\ pgReq = NoPageRequest
    /\ pgResp = PageResponse(0, "", NotCalled)

NoCheckout == [slug |-> "", email |-> NoEmail, order_public_id |-> ""]

IdleCheckout ==
    /\ env = [base |-> Unset, success |-> Unset, cancel |-> Unset]
    /\ coReq = NoCheckout
    /\ coResp = CheckoutResponse(0, "", NoSession)

\* The request under study is any request the endpoint can receive; the
\* provider is whatever build_provider selected at start-up.
InitWebhook ==
    /\ provider \in Providers
    /\ \E p \in Payloads, a \in Ages, httpOk \in BOOLEAN :
       \E h \in Headers(p) : whReq = Request(p, h, a, httpOk)
    /\ whResp = Response(0, <<>>)
    /\ delivered = 0
    /\ sent = 0
    /\ acked = 0
    /\ trace = <<>>
    /\ IdleCatalog
    /\ IdlePage
    /\ IdleCheckout

\* What the trace keeps of one handled request: whether it was the request
\* under study, the response status and the number of send calls made.
Entry(study, r) == [study |-> study, status |-> r.status, calls |-> Len(r.calls)]

\* One delivery of the request, handled to completion.
Webhook ==
    /\ delivered < MaxDeliveries
    /\ LET r == stripe_webhook(whReq, provider)
       IN  /\ whResp' = r
           /\ delivered' = delivered + 1
           /\ sent' = sent + Len(r.calls)
           /\ acked' = acked + (IF r.status = 200 THEN 1 ELSE 0)
           /\ trace' = Append(trace, Entry(TRUE, r))
    /\ UNCHANGED <<provider, whReq, catVars, pgVars, coVars>>

NextWebhook == Webhook

SpecWebhook == InitWebhook /\ [][NextWebhook]_vars

(***************************************************************************)
(* Claims about the webhook handler.                                       *)
(***************************************************************************)
\* The request's signature is the MAC of its own payload under the shared
\* secret, inside the tolerance window.
SignatureVerifies ==
    /\ whReq.sig = Mac(WebhookSecret, whReq.payload)
    /\ whReq.age <= Tolerance

\* A field "is present" when its dict is there and holds a non-empty string.
Present(d) == d.tag = "obj" /\ d.val.tag = "str" /\ d.val.val # ""

Handled == delivered > 0

\* C1: a request whose signature does not verify is rejected (400) and no
\* send call is made, whatever its event type and fields.
C1_UnverifiedRejectedNoSend ==
    (Handled /\ ~SignatureVerifies)
        => (whResp.status = 400 /\ whResp.calls = <<>> /\ sent = 0 /\ acked = 0)

C1_Witness ==
    /\ Handled
    /\ whReq.sig = Mac(WebhookSecret, Tamper(whReq.payload))
    /\ whReq.age = 0
    /\ whReq.payload.type = "charge.refunded"
    /\ Present(whReq.payload.billing_details)
    /\ whResp.status = 400

\* C2: every request whose signature verifies is acknowledged (200), for
\* every event type, every shape of the object's fields and every outcome
\* of the send call.
C2_VerifiedAlwaysAcknowledged ==
    (Handled /\ SignatureVerifies) => whResp.status = 200

\* C3: a verified checkout.session.completed event with buyer email and
\* product slug present makes exactly one send call (to that email, order
\* confirmation subject, body naming the slug) and is acknowledged even when
\* the send raises; with either missing no send call is made.
C3_CheckoutCompletedNotifiesOnce ==
    (Handled /\ SignatureVerifies
        /\ whReq.payload.type = "checkout.session.completed")
    => LET email == whReq.payload.customer_details
           md == whReq.payload.metadata
       IN  IF Present(email) /\ Present(md)
           THEN /\ whResp.calls =
                     <<SendCall(email.val.val, "Your order is confirmed",
                                ConfirmHtml(md.val.val), ConfirmText(md.val.val))>>
                /\ whResp.status = 200
                /\ sent = delivered
                /\ acked = delivered
           ELSE whResp.calls = <<>> /\ sent = 0

C3_Witness ==
    /\ Handled /\ SignatureVerifies
    /\ whReq.payload.type = "checkout.session.completed"
    /\ Present(whReq.payload.customer_details)
    /\ Present(whReq.payload.metadata)
    /\ SendRaises(provider, whReq.httpOk)
    /\ Len(whResp.calls) = 1
    /\ whResp.status = 200

\* C4: a verified charge.refunded event with no billing email makes no send
\* call and is acknowledged; with a billing email it makes exactly one
\* refund-completed send call to that email and is acknowledged even when the
\* send raises.
C4_RefundNotifiesBillingEmail ==
    (Handled /\ SignatureVerifies /\ whReq.payload.type = "charge.refunded")
    => LET email == whReq.payload.billing_details
       IN  /\ whResp.status = 200
           /\ IF Present(email)
              THEN whResp.calls =
                     <<SendCall(email.val.val, "Your refund is completed",
                                RefundHtml, <<>>)>>
              ELSE whResp.calls = <<>>

(***************************************************************************)
(* Catalog lookups on their own: the catalog is any the platform can hold, *)
(* the actions apply the two resolver functions to it.                     *)
(***************************************************************************)
LookupSlugs == {"widget-1", "mug-2"}

ProductKinds == [slug : LookupSlugs \cup {NoSlug}, active : BOOLEAN]

\* The catalog built from a choice of kinds, the ids being the positions.
Catalog(f) ==
    [i \in DOMAIN f |-> Product(i, f[i].active, f[i].slug, "true", NoPrice)]

InitFind ==
    /\ IdleWebhook
    /\ IdlePage
    /\ IdleCheckout
    /\ \E n \in 0..MaxProducts :
       \E f \in [1..n -> ProductKinds] : products = Catalog(f)
    /\ prices = <<>>
    /\ catReq = NoLookup
    /\ catResp = [done |-> FALSE, found |-> FALSE, item |-> NoProduct,
                  fetched |-> 0, price |-> NoPrice]

FindBySlug ==
    /\ \E slug \in LookupSlugs :
          LET r == find_product_by_slug(products, slug)
          IN  /\ catReq' = [op |-> "find", slug |-> slug]
              /\ catResp' = [done |-> TRUE, found |-> r.found, item |-> r.item,
                             fetched |-> r.fetched, price |-> NoPrice]
    /\ UNCHANGED <<whVars, products, prices, pgVars, coVars>>

NextFind == FindBySlug

SpecFind == InitFind /\ [][NextFind]_vars

\* The positions, in the whole catalog, of the active products with the slug.
MatchPositions(slug) ==
    {i \in 1..Len(products) : products[i].active /\ products[i].slug = slug}

\* The number of active products before position i.
ActiveBefore(i) == Cardinality({j \in 1..(i - 1) : products[j].active})

ActiveCount == Cardinality({j \in 1..Len(products) : products[j].active})

\* The number of pages needed to reach the n-th item of the listing.
PagesFor(n) == IF n = 0 THEN 1 ELSE ((n - 1) \div PageSize) + 1

\* C10: find_product_by_slug returns the first active product, in listing
\* order, whose slug equals the requested one; it returns nothing exactly when
\* no active product has the slug; it fetches no page after the one holding
\* the match, and otherwise stops at the page the upstream marks as the last.
C10_FindReturnsFirstActiveMatch ==
    (catResp.done /\ catReq.op = "find")
    => LET m == MatchPositions(catReq.slug)
       IN  IF m = {}
           THEN /\ ~catResp.found
                /\ catResp.fetched = PagesFor(ActiveCount)
           ELSE LET first == CHOOSE i \in m : \A j \in m : i <= j
                IN  /\ catResp.found
                    /\ catResp.item = products[first]
                    /\ catResp.fetched = PagesFor(ActiveBefore(first) + 1)

\* A match on the second page, behind an inactive product with the same slug
\* and ahead of a later duplicate.
C10_Witness ==
    /\ catResp.done /\ catReq.op = "find"
    /\ catResp.found
    /\ catResp.fetched = 2
    /\ Cardinality(MatchPositions(catReq.slug)) = 2
    /\ \E i \in 1..Len(products) :
          /\ ~products[i].active
          /\ products[i].slug = catReq.slug
          /\ i < catResp.item.id

(***************************************************************************)
(* Price resolution on its own: one product, any default-price reference   *)
(* to one of its prices, any list of prices.                               *)
(***************************************************************************)
PriceKinds == [product : {1, 2}, active : BOOLEAN]

PriceList(f) == [i \in DOMAIN f |-> Price(i, f[i].product, f[i].active)]

\* Lists longer than the listing limit: every price of product 1, all active
\* but possibly the first.
LongPriceLists ==
    {[i \in 1..(ListLimit + 1) |-> Price(i, 1, i > 1 \/ firstActive)] :
        firstActive \in BOOLEAN}

\* A default-price reference names a price of the product itself.
DefaultRefs(prs) ==
    {NoPrice} \cup {prs[i].id : i \in {j \in 1..Len(prs) : prs[j].product = 1}}

InitPrice ==
    /\ IdleWebhook
    /\ IdlePage
    /\ IdleCheckout
    /\ \/ \E n \in 0..MaxPrices :
             \E f \in [1..n -> PriceKinds] : prices = PriceList(f)
       \/ prices \in LongPriceLists
    /\ \E dp \in DefaultRefs(prices) :
          products = <<Product(1, TRUE, "widget-1", "true", dp)>>
    /\ catReq = NoLookup
    /\ catResp = [done |-> FALSE, found |-> FALSE, item |-> NoProduct,
                  fetched |-> 0, price |-> NoPrice]

DefaultPrice ==
    /\ ~catResp.done
    /\ catReq' = [op |-> "price", slug |-> products[1].slug]
    /\ catResp' = [done |-> TRUE, found |-> TRUE, item |-> products[1],
                   fetched |-> 0,
                   price |-> default_price_for_product(products[1], prices)]
    /\ UNCHANGED <<whVars, products, prices, pgVars, coVars>>

NextPrice == DefaultPrice

SpecPrice == InitPrice /\ [][NextPrice]_vars

\* The positions of the active prices of the product, in listing order.
ActivePositions(product_id) ==
    {i \in 1..Len(prices) : prices[i].product = product_id /\ prices[i].active}

DefaultIsActive(product) ==
    /\ product.default_price # NoPrice
    /\ \E i \in 1..Len(prices) :
          prices[i].id = product.default_price /\ prices[i].active

\* C8: the default price is returned when the product names one and it is
\* active; otherwise the first active price of the product in listing order,
\* from a listing of at most 10 entries; otherwise nothing.  An inactive
\* price is never returned.
C8_DefaultPriceResolutionOrder ==
    (catResp.done /\ catReq.op = "price")
    => LET product == catResp.item
           act == ActivePositions(product.id)
       IN  /\ Len(ActivePrices(prices, product.id)) <= ListLimit
           /\ IF DefaultIsActive(product)
              THEN catResp.price = product.default_price
              ELSE IF act # {}
              THEN catResp.price =
                      prices[CHOOSE i \in act : \A j \in act : i <= j].id
              ELSE catResp.price = NoPrice
           /\ catResp.price # NoPrice
                 => \E i \in act : prices[i].id = catResp.price

\* The example of the claim: default P1 inactive, active prices [P2, P3].
C8_Witness ==
    /\ catResp.done /\ catReq.op = "price"
    /\ prices = <<Price(1, 1, FALSE), Price(2, 1, TRUE), Price(3, 1, TRUE)>>
    /\ catResp.item.default_price = 1
    /\ catResp.price = 2

(***************************************************************************)
(* Product pages and preview tokens over time.                             *)
(***************************************************************************)
PageSlugs == {"widget-1", "mug-2", "ghost-3"}
IssueSlugs == {"widget-1", "mug-2"}
TickSteps == {1, MaxAge}

\* Two products with distinct slugs, each with its own default price; the
\* second product's price may be archived.
PageCatalogs ==
    {[products |-> <<Product(1, TRUE, "widget-1", f1, 1),
                     Product(2, TRUE, "mug-2", f2, 2)>>,
      prices |-> <<Price(1, 1, TRUE), Price(2, 2, a)>>] :
        f1 \in {"true", "false", NoFlag}, f2 \in {"false"}, a \in BOOLEAN}

InitPage ==
    /\ IdleWebhook
    /\ IdleCheckout
    /\ \E c \in PageCatalogs : products = c.products /\ prices = c.prices
    /\ catReq = NoLookup
    /\ catResp = [done |-> FALSE, found |-> FALSE, item |-> NoProduct,
                  fetched |-> 0, price |-> NoPrice]
    /\ IdlePage

Tick ==
    /\ ticks < MaxTicks
    /\ \E d \in TickSteps : now' = now + d
    /\ ticks' = ticks + 1
    /\ UNCHANGED <<whVars, catVars, coVars, issued, pgReq, pgResp>>

PreviewToken ==
    /\ Cardinality(issued) < MaxTokens
    /\ \E slug \in IssueSlugs :
          issued' = issued \cup
              {[slug |-> slug, at |-> now, token |-> preview_token(slug, now)]}
    /\ UNCHANGED <<whVars, catVars, coVars, now, ticks, pgReq, pgResp>>

OtherSlug(slug) == IF slug = "widget-1" THEN "mug-2" ELSE "widget-1"

\* What a caller can put in ?preview=: nothing, junk, a token it was given,
\* such a token with its signature, payload or timestamp changed, or a token
\* made with a secret of its own.
Presentable ==
    {NoToken, EmptyToken, GarbledToken}
    \cup {i.token : i \in issued}
    \cup {[i.token EXCEPT !.sig = Hmac(ForgerSecret, i.token.value, i.token.ts)] :
             i \in issued}
    \cup {[i.token EXCEPT !.value = OtherSlug(i.token.value)] : i \in issued}
    \cup {[i.token EXCEPT !.ts = now] : i \in issued}
    \cup {Token("token", slug, now, Hmac(ForgerSecret, slug, now)) :
             slug \in IssueSlugs}

ProductPage ==
    /\ \E slug \in PageSlugs, preview \in Presentable :
          /\ pgReq' = [slug |-> slug, preview |-> preview, at |-> now]
          /\ pgResp' = product_page(products, prices, slug, preview, now)
    /\ UNCHANGED <<whVars, catVars, coVars, now, ticks, issued>>

NextPage == Tick \/ PreviewToken \/ ProductPage

SpecPage == InitPage /\ [][NextPage]_vars

PageServed == pgReq.slug # ""

\* The requested slug names a product whose published flag is not "true".
RequestedUnpublished ==
    \E i \in 1..Len(products) :
        /\ products[i].active
        /\ products[i].slug = pgReq.slug
        /\ products[i].published \notin {"true", NoFlag}

\* The presented token is one the token endpoint returned, unchanged.
IssuedFor(preview) == {i \in issued : i.token = preview}

\* C5: the page of an unpublished product is served only to a request whose
\* token was issued for that same slug and has not expired.
C5_PreviewTokenBoundToSlug ==
    (PageServed /\ RequestedUnpublished /\ pgResp.status = 200)
    => \E i \in IssuedFor(pgReq.preview) :
          i.slug = pgReq.slug /\ pgReq.at - i.at <= MaxAge

\* C6: for an unpublished product, a request without a token, with an expired
\* token or with a token of invalid signature gets status 404, the status of
\* a slug that does not exist.
C6_DeniedPreviewLooksNotFound ==
    (PageServed /\ RequestedUnpublished
        /\ \A i \in IssuedFor(pgReq.preview) : pgReq.at - i.at > MaxAge)
    => pgResp.status = 404

\* C7: unsign returns the slug a token was issued for exactly when the token
\* is presented unchanged and at most 3600 seconds after its issue; a
\* genuine token older than that fails as expired, a changed one as a bad
\* signature, and nothing else invalidates a token.
C7_TokenValidIffUnalteredAndFresh ==
    (PageServed /\ pgResp.unsign.called)
    => LET genuine == IssuedFor(pgReq.preview)
           fresh == {i \in genuine : pgReq.at - i.at <= MaxAge}
       IN  /\ pgResp.unsign.ok <=> fresh # {}
           /\ pgResp.unsign.ok => \A i \in fresh : pgResp.unsign.value = i.slug
           /\ (genuine # {} /\ fresh = {})
                 => pgResp.unsign.error = "SignatureExpired"
           /\ genuine = {} => pgResp.unsign.error = "BadSignature"

\* A genuine token checked exactly 3600 seconds after its issue is accepted.
C7_Witness ==
    /\ PageServed /\ pgResp.unsign.called
    /\ pgResp.unsign.ok
    /\ \E i \in IssuedFor(pgReq.preview) :
          pgReq.at - i.at = MaxAge /\ pgResp.unsign.value = i.slug

(***************************************************************************)
(* Checkout requests, under every configuration of the URL templates.      *)
(***************************************************************************)
ShopBase == <<"https://shop.example">>

\* STRIPE_SUCCESS_URL_BASE: not set, a template with {slug} placeholders, or
\* one with {{slug}} placeholders.
SuccessTemplates ==
    {Unset,
     SetTo(ShopBase \o <<"/p/", "{", "slug", "}", "?success=1&op=",
                         "{", "order_public_id", "}">>),
     SetTo(ShopBase \o <<"/p/", "{", "{", "slug", "}", "}", "?success=1&op=",
                         "{", "{", "order_public_id", "}", "}">>)}

CancelTemplates ==
    {Unset,
     SetTo(ShopBase \o <<"/p/", "{", "slug", "}", "?cancel=1">>),
     SetTo(ShopBase \o <<"/p/", "{", "{", "slug", "}", "}", "?cancel=1">>)}

Envs ==
    [base : {Unset, SetTo(ShopBase)}, success : SuccessTemplates,
     cancel : CancelTemplates]

CheckoutSlugs == {"widget-1", "mug-2", "ghost-3"}
CheckoutEmails == {NoEmail, "buyer@example.com"}
OrderIds == {"abc123", "Zx9_kQ"}

\* The first product published, unpublished or unflagged, and possibly
\* archived; the second unpublished, its default price possibly archived and
\* possibly a second price of its own.
CheckoutCatalogs ==
    {[products |-> <<Product(1, act, "widget-1", f1, 1),
                     Product(2, TRUE, "mug-2", "false", 2)>>,
      prices |-> <<Price(1, 1, TRUE), Price(2, 2, a), Price(3, 2, b)>>] :
        act \in BOOLEAN, f1 \in {"true", "false", NoFlag},
        a \in BOOLEAN, b \in BOOLEAN}

InitCheckout ==
    /\ IdleWebhook
    /\ IdlePage
    /\ \E c \in CheckoutCatalogs : products = c.products /\ prices = c.prices
    /\ catReq = NoLookup
    /\ catResp = [done |-> FALSE, found |-> FALSE, item |-> NoProduct,
                  fetched |-> 0, price |-> NoPrice]
    /\ env \in Envs
    /\ coReq = NoCheckout
    /\ coResp = CheckoutResponse(0, "", NoSession)

CreateSession ==
    /\ \E slug \in CheckoutSlugs, email \in CheckoutEmails, oid \in OrderIds :
          /\ coReq' = [slug |-> slug, email |-> email, order_public_id |-> oid]
          /\ coResp' = create_session(env, products, prices, slug, email, oid)
    /\ UNCHANGED <<whVars, catVars, pgVars, env>>

NextCheckout == CreateSession

SpecCheckout == InitCheckout /\ [][NextCheckout]_vars

\* The template in force: the configured one, else the default path.
SuccessTemplateInForce ==
    IF env.success.set THEN env.success.value
    ELSE (IF env.base.set THEN env.base.value ELSE DefaultBaseUrl)
         \o <<"/p/", "{", "slug", "}", "?success=1&op=",
              "{", "order_public_id", "}">>

CancelTemplateInForce ==
    IF env.cancel.set THEN env.cancel.value
    ELSE (IF env.base.set THEN env.base.value ELSE DefaultBaseUrl)
         \o <<"/p/", "{", "slug", "}", "?cancel=1">>

\* A template with its {name} placeholder filled in.
Filled(template, name, value) == Replace(template, <<"{", name, "}">>, <<value>>)

HasPlaceholder(url) ==
    \E i \in 1..Len(url) :
        StartsWith(url, i, <<"{", "slug", "}">>)
        \/ StartsWith(url, i, <<"{", "order_public_id", "}">>)

SessionRequested == coResp.status = 303

\* C9: the success URL sent to the platform is the template in force with
\* {slug} replaced by the slug and the order-id placeholder replaced by the
\* order id, the cancel URL its template with {slug} replaced; no placeholder
\* is left in either.
C9_CheckoutUrlsFilledIn ==
    SessionRequested
    => /\ coResp.session.success_url =
             Filled(Filled(SuccessTemplateInForce, "slug", coReq.slug),
                    "order_public_id", coReq.order_public_id)
       /\ coResp.session.cancel_url =
             Filled(CancelTemplateInForce, "slug", coReq.slug)
       /\ ~HasPlaceholder(coResp.session.success_url)
       /\ ~HasPlaceholder(coResp.session.cancel_url)

(***************************************************************************)
(* Repeated deliveries: the request under study is delivered again and     *)
(* again, in any interleaving with deliveries of other requests.           *)
(***************************************************************************)
ReplayDetails == {Null, Obj(Absent), Obj(Str("buyer@example.com"))}

ReplayPayloads ==
    [type : EventTypes,
     customer_details : ReplayDetails,
     billing_details : ReplayDetails,
     metadata : {Absent, Obj(Str("widget-1"))}]

RefundEvent ==
    [type |-> "charge.refunded", customer_details |-> Absent,
     billing_details |-> Obj(Str("other@example.com")), metadata |-> Absent]

OrderEvent ==
    [type |-> "checkout.session.completed",
     customer_details |-> Obj(Str("other@example.com")),
     billing_details |-> Absent, metadata |-> Obj(Str("mug-2"))]

InvoiceEvent ==
    [type |-> "invoice.paid", customer_details |-> Absent,
     billing_details |-> Absent, metadata |-> Absent]

\* The other traffic of the endpoint: a signed refund, a signed order whose
\* send fails, a signed event of another type, an order with a foreign MAC.
OtherRequests ==
    {Request(RefundEvent, Mac(WebhookSecret, RefundEvent), 0, TRUE),
     Request(OrderEvent, Mac(WebhookSecret, OrderEvent), 0, FALSE),
     Request(InvoiceEvent, Mac(WebhookSecret, InvoiceEvent), 0, TRUE),
     Request(OrderEvent, Mac(OtherSecret, OrderEvent), 0, TRUE)}

InitReplay ==
    /\ provider \in Providers
    /\ \E p \in ReplayPayloads, httpOk \in BOOLEAN :
       \E h \in {Mac(WebhookSecret, p), NoHeader} :
          whReq = Request(p, h, 0, httpOk)
    /\ whResp = Response(0, <<>>)
    /\ delivered = 0
    /\ sent = 0
    /\ acked = 0
    /\ trace = <<>>
    /\ IdleCatalog
    /\ IdlePage
    /\ IdleCheckout

\* The handler applied to one request; nothing but the counters and the
\* trace, which observe it, changes.
Handle(req, study) ==
    LET r == stripe_webhook(req, provider)
    IN  /\ whResp' = r
        /\ delivered' = delivered + 1
        /\ sent' = sent + Len(r.calls)
        /\ acked' = acked + (IF r.status = 200 THEN 1 ELSE 0)
        /\ trace' = Append(trace, Entry(study, r))

Redeliver ==
    /\ Len(trace) < MaxReplay
    /\ Handle(whReq, TRUE)
    /\ UNCHANGED <<provider, whReq, catVars, pgVars, coVars>>

DeliverOther ==
    /\ Len(trace) < MaxReplay
    /\ \E req \in OtherRequests \ {whReq} : Handle(req, FALSE)
    /\ UNCHANGED <<provider, whReq, catVars, pgVars, coVars>>

NextReplay == Redeliver \/ DeliverOther

SpecReplay == InitReplay /\ [][NextReplay]_vars

StudyEntries == {i \in 1..Len(trace) : trace[i].study}

RECURSIVE SumCalls(_, _)
SumCalls(entries, only) ==
    IF entries = <<>> THEN 0
    ELSE (IF only => Head(entries).study THEN Head(entries).calls ELSE 0)
         + SumCalls(Tail(entries), only)

\* The event is one the handler notifies about: an order with buyer email
\* and slug, or a refund with billing email.
Notifiable(payload) ==
    \/ /\ payload.type = "checkout.session.completed"
       /\ Present(payload.customer_details)
       /\ Present(payload.metadata)
    \/ /\ payload.type = "charge.refunded"
       /\ Present(payload.billing_details)

\* C11: the handler keeps nothing between requests: every delivery of the
\* same request has the same status and the same number of send calls,
\* whatever was delivered before it; k deliveries of a validly signed
\* notifiable event make exactly k send calls and k acknowledgments.
C11_NoDeduplicationAcrossDeliveries ==
    /\ \A i, j \in StudyEntries :
          trace[i].status = trace[j].status /\ trace[i].calls = trace[j].calls
    /\ sent = SumCalls(trace, FALSE)
    /\ (SignatureVerifies /\ Notifiable(whReq.payload))
          => /\ \A i \in StudyEntries : trace[i].status = 200 /\ trace[i].calls = 1
             /\ SumCalls(trace, TRUE) = Cardinality(StudyEntries)

\* The same signed order delivered twice around another notifying event.
C11_Witness ==
    /\ SignatureVerifies /\ Notifiable(whReq.payload)
    /\ Len(trace) = 3
    /\ trace[1].study /\ ~trace[2].study /\ trace[3].study
    /\ trace[2].calls = 1
    /\ SumCalls(trace, TRUE) = 2
    /\ sent = 3 /\ acked = 3

CheckoutHandled == coReq.slug # ""

\* The price the resolution order gives for the product, NoPrice if none.
ResolvedPrice(product) ==
    LET act == ActivePositions(product.id)
    IN  IF DefaultIsActive(product) THEN product.default_price
        ELSE IF act # {} THEN prices[CHOOSE i \in act : \A j \in act : i <= j].id
        ELSE NoPrice

\* The positions of the active products with the slug of the checkout.
CheckoutMatches ==
    {i \in 1..Len(products) : products[i].active /\ products[i].slug = coReq.slug}

\* C12: a checkout session is requested only when the slug names an active
\* product and a price resolves for it; an unknown slug ends in 404 and a
\* product without active price in 400, no session requested.  The published
\* flag plays no part: the session requested for an unpublished product is
\* the one a published product would get.
C12_CheckoutIgnoresPublication ==
    CheckoutHandled
    => IF CheckoutMatches = {}
       THEN coResp.status = 404 /\ coResp.session = NoSession
       ELSE LET first == CHOOSE i \in CheckoutMatches :
                             \A j \in CheckoutMatches : i <= j
                price_id == ResolvedPrice(products[first])
            IN  IF price_id = NoPrice
                THEN coResp.status = 400 /\ coResp.session = NoSession
                ELSE /\ coResp.status = 303
                     /\ coResp.session.price = price_id
                     /\ coResp.session.quantity = 1
                     /\ coResp.session.customer_email = coReq.email
                     /\ coResp.session.metadata =
                           [product_slug |-> coReq.slug,
                            order_public_id |-> coReq.order_public_id]

\* An unpublished product whose default price is archived and whose other
\* price is active: the checkout obtains a session at that price.
C12_Witness ==
    /\ CheckoutHandled
    /\ coReq.slug = "mug-2"
    /\ products[2].published = "false"
    /\ ~prices[2].active
    /\ coResp.status = 303
    /\ coResp.session.price = 3

====
